---- MODULE Spec2Model ----
(***************************************************************************)
(* Model of the hexane request-handling core.                              *)
(*                                                                         *)
(*   poc/guards-extractors/route-builder.ts : RouteBuilder, the fluent     *)
(*   builder of a route pipeline, and the request handler that             *)
(*   RouteBuilder.handle returns.                                          *)
(*                                                                         *)
(* One RouteBuilder instance is followed: its three private arrays, the    *)
(* request handler returned by handle, and the invocations of that         *)
(* request handler.  An invocation is an async function: it is suspended   *)
(* at every await and resumed later, so builder calls and other            *)
(* invocations may run between two of its steps.                           *)
(*                                                                         *)
(*   poc/module-tree/core.ts : module definitions and the traversal of     *)
(*   the module tree by createH3AppFromModule, which collects the routes   *)
(*   and providers of the modules and registers the routes with a router.  *)
(*                                                                         *)
(* The traversal is followed call by call: the stack of traverseModule     *)
(* calls, the visited set and the two arrays that the calls fill.          *)
(***************************************************************************)
EXTENDS Integers, Sequences, FiniteSets, TLC

VARIABLES
    middlewares,     \* RouteBuilder.middlewares  (route-builder.ts:45)
    guards,          \* RouteBuilder.guards       (route-builder.ts:46)
    extractors,      \* RouteBuilder.extractors   (route-builder.ts:47)
    declared,        \* history: the builder calls made so far, in call order
    requestHandler,  \* the closure returned by handle, or NoHandler
    invocations,     \* the calls of requestHandler, in call order
    given,           \* the object literals passed to defineModule, by module
    modules,         \* the module definitions, by module (core.ts:35-50)
    pc,              \* where createH3AppFromModule is: "idle" or "traversing"
    stack,           \* the traverseModule calls in progress, innermost last
    visited,         \* const visited = new Set<ModuleDefinition>() (core.ts:95)
    routes,          \* const routes: RouteDefinition[] = []  (core.ts:91)
    providers,       \* const providers: Provider[] = []      (core.ts:92)
    visits,          \* history: the objects whose body traverseModule ran, in order
    returned,        \* the results createH3AppFromModule returned, in call order
    reported,        \* the import cycles createH3AppFromModule threw or warned about
    skipped          \* history: the imports that led back to a module in progress

pipelineVars == <<middlewares, guards, extractors, declared, requestHandler, invocations>>
resolverVars == <<given, modules, pc, stack, visited, routes, providers, visits, returned,
                  reported, skipped>>
vars == <<middlewares, guards, extractors, declared, requestHandler, invocations,
          given, modules, pc, stack, visited, routes, providers, visits, returned,
          reported, skipped>>

----------------------------------------------------------------------------
(* Bounds of the model *)

MaxSteps == 2          \* builder calls under Spec
MaxBuildSteps == 3     \* builder calls under SpecBuild
MaxServeSteps == 2     \* builder calls under SpecServe
MaxInvocations == 2    \* interleaved invocations under SpecServe
MaxParams == 2         \* declared parameters of a candidate handler function
MaxImports == 2        \* entries of a module's imports array under SpecResolve
MaxLazyImports == 1    \* entries of a module's imports array under SpecLazy
MaxResolutions == 2    \* calls of createH3AppFromModule
MaxLimitSteps == 2     \* builder calls under SpecLimit
MaxCallSteps == 2      \* builder calls under SpecCall

----------------------------------------------------------------------------
(* Inputs: the functions and requests a caller can supply *)

\* Middleware functions given to use(): type-tests.ts:188 (logger) and one
\* that throws.
MiddlewareFns == {"logger", "failingMiddleware"}

\* Guard functions given to guard(): type-tests.ts:206 (myGuard, returns true)
\* and one that returns false.
GuardFns == {"myGuard", "denyGuard"}

\* Extractor functions given to extract(): type-tests.ts:222 (ipExtractor).
ExtractorFns == {"ipExtractor"}

RoleNames == {"admin"}
HeaderNames == {"x-api-key"}
RateLimitOptions == {100}
\* Limits that a second request would exceed.
TightLimits == {0, 1}

\* event.context.auth: undefined, or a user object (named by its login) with
\* its roles.
Undefined == "undefined"
AuthValues == {Undefined, "alice", "root"}
ServeAuthValues == {Undefined, "alice"}

RolesOf(user) ==
    CASE user = "alice" -> {"user"}
      [] user = "root" -> {"user", "admin"}

\* event.body(): resolves with the body or rejects (malformed body).
BodyValues == {"ok", "malformed"}

\* The static types the type tests give the extractors (type-tests.ts:14-31).
TypeNames == {"CreateUserDto", "User", "UserParams", "PaginationQuery", "string"}

\* The parameter types the type tests declare on handlers (type-tests.ts:43,
\* 54, 180).
ParamTypes == {"CreateUserDto", "string", "any"}

NoHandler == [none |-> TRUE]

----------------------------------------------------------------------------
(* Step functions: what each function does with the event *)

Returned(v) == [threw |-> FALSE, value |-> v]
Threw(msg) == [threw |-> TRUE, error |-> msg]

\* `Forbidden: requires ${role} role` (route-builder.ts:103)
ForbiddenMessage(role) ==
    CASE role = "admin" -> "Forbidden: requires admin role"
      [] OTHER -> "Forbidden: requires role"

\* A middleware is called for its effect; it completes or throws.
RunMiddleware(step, event) ==
    CASE step.fn = "logger" -> Returned("void")
      [] step.fn = "failingMiddleware" -> Threw("Middleware error")

\* Mutant: requireRole asks for authentication first.
RunGuardAuthFirst(step, event) ==
    CASE step.fn = "rateLimit" -> Returned(TRUE)
      [] step.fn = "requireAuth" ->
            IF event.auth = Undefined THEN Threw("Unauthorized") ELSE Returned(TRUE)
      [] step.fn = "requireRole" ->
            IF event.auth = Undefined THEN Threw("Unauthorized")
            ELSE IF step.arg \notin RolesOf(event.auth)
            THEN Threw(ForbiddenMessage(step.arg))
            ELSE Returned(TRUE)
      [] step.fn = "myGuard" -> Returned(TRUE)
      [] step.fn = "denyGuard" -> Returned(FALSE)

\* Mutant: rateLimit counts the requests and lets options.max of them pass.
RunGuardLimiting(step, event) ==
    CASE step.fn = "rateLimit" ->
            LET max == CHOOSE m \in RateLimitOptions \cup TightLimits :
                           ToString(m) = step.arg
            IN  Returned(event.req <= max)
      [] step.fn = "requireAuth" ->
            IF event.auth = Undefined THEN Threw("Unauthorized") ELSE Returned(TRUE)
      [] step.fn = "requireRole" ->
            IF event.auth = Undefined \/ step.arg \notin RolesOf(event.auth)
            THEN Threw(ForbiddenMessage(step.arg))
            ELSE Returned(TRUE)
      [] step.fn = "myGuard" -> Returned(TRUE)
      [] step.fn = "denyGuard" -> Returned(FALSE)

\* route-builder.ts:76-107 and the custom guards.
RunGuard(step, event) ==
    CASE step.fn = "rateLimit" -> Returned(TRUE)
      [] step.fn = "requireAuth" ->
            IF event.auth = Undefined THEN Threw("Unauthorized") ELSE Returned(TRUE)
      [] step.fn = "requireRole" ->
            IF event.auth = Undefined \/ step.arg \notin RolesOf(event.auth)
            THEN Threw(ForbiddenMessage(step.arg))
            ELSE Returned(TRUE)
      [] step.fn = "myGuard" -> Returned(TRUE)
      [] step.fn = "denyGuard" -> Returned(FALSE)

\* A value read from the event of request `req`.
FromRequest(field, event, v) == [field |-> field, req |-> event.req, val |-> v]

\* route-builder.ts:127-172 and the custom extractors.
RunExtractor(step, event) ==
    CASE step.fn = "body" ->
            IF event.body = "malformed" THEN Threw("Malformed body")
            ELSE Returned(FromRequest("body", event, event.body))
      [] step.fn = "params" -> Returned(FromRequest("params", event, "params"))
      [] step.fn = "query" -> Returned(FromRequest("query", event, "query"))
      [] step.fn = "auth" -> Returned(FromRequest("auth", event, event.auth))
      [] step.fn = "header" -> Returned(FromRequest("header", event, step.arg))
      [] step.fn = "ipExtractor" -> Returned([field |-> "ip", req |-> 0, val |-> "127.0.0.1"])

\* The type argument the type tests give each extractor.
TypeOf(fn) ==
    CASE fn = "body" -> "CreateUserDto"
      [] fn = "params" -> "UserParams"
      [] fn = "query" -> "PaginationQuery"
      [] fn = "auth" -> "User"
      [] fn = "header" -> "string"
      [] fn = "ipExtractor" -> "string"

----------------------------------------------------------------------------
(* RouteBuilder *)

Step(fn, arg) == [fn |-> fn, arg |-> arg, id |-> Len(declared) + 1]
Call(kind, fn, arg) == [kind |-> kind, fn |-> fn, arg |-> arg]

\* Mutant: this.middlewares.unshift(middleware)
UnshiftMiddleware(step) == <<step>> \o middlewares

\* this.middlewares.push(middleware)
PushMiddleware(step) == Append(middlewares, step)

\* Mutant: once handle was called, guard works on a copy of the builder.
PushGuardOnCopy(step) ==
    IF requestHandler = NoHandler THEN Append(guards, step) ELSE guards

\* this.guards.push(guard)
PushGuard(step) == Append(guards, step)

\* Mutant: unshift instead of push.
PushExtractorFirst(step) == <<step>> \o extractors

\* newBuilder.extractors.push(extractor)
PushExtractor(step) == Append(extractors, step)

use(middleware) ==
    /\ middlewares' = PushMiddleware(Step(middleware, ""))
    /\ declared' = Append(declared, Call("action", middleware, ""))
    /\ UNCHANGED <<guards, extractors, requestHandler, invocations>>
    /\ UNCHANGED resolverVars

guardWith(fn, arg) ==
    /\ guards' = PushGuard(Step(fn, arg))
    /\ declared' = Append(declared, Call("guard", fn, arg))
    /\ UNCHANGED <<middlewares, extractors, requestHandler, invocations>>
    /\ UNCHANGED resolverVars

guard(g) == guardWith(g, "")

\* The guard closes over options; options.max is only logged by the guard
\* (route-builder.ts:79).
rateLimit(max) == guardWith("rateLimit", ToString(max))

requireAuth == guardWith("requireAuth", "")

requireRole(role) == guardWith("requireRole", role)

extractWith(fn, arg) ==
    /\ extractors' = PushExtractor(Step(fn, arg))
    /\ declared' = Append(declared, Call("extractor", fn, arg))
    /\ UNCHANGED <<middlewares, guards, requestHandler, invocations>>
    /\ UNCHANGED resolverVars

extract(extractor) == extractWith(extractor, "")

body == extractWith("body", "")

params == extractWith("params", "")

query == extractWith("query", "")

auth == extractWith("auth", "")

header(name) == extractWith("header", name)

----------------------------------------------------------------------------
(* handle: the type check of the handler function, and the request handler *)

\* Whether a value of static type `from` may be passed where `to` is declared.
Assignable(from, to) == from = to \/ from = "any" \/ to = "any"

\* TExtracted of the builder: one type per extract call, in call order
\* (route-builder.ts:118).
TExtracted == [i \in 1..Len(extractors) |-> TypeOf(extractors[i].fn)]

\* Mutant: the number of parameters is not compared.
HandlerAcceptedAnyArity(ps, T) ==
    \A i \in 1..Len(ps) : i <= Len(T) => Assignable(T[i], ps[i])

\* Handler<TExtracted> = (...args: TExtracted) => any (route-builder.ts:18):
\* a function with parameter types `ps` is accepted where Handler<T> is
\* expected when it declares no more parameters than T has entries and each
\* entry of T may be passed to the parameter at its position.
HandlerAccepted(ps, T) ==
    /\ Len(ps) <= Len(T)
    /\ \A i \in 1..Len(ps) : Assignable(T[i], ps[i])

\* Candidate handler functions, by their declared parameter types.
SeqsUpTo(S, n) == UNION {[1..k -> S] : k \in 0..n}
HandlerParams == SeqsUpTo(ParamTypes, MaxParams)

\* Handler functions given to handle: one that returns what it was called
\* with, and one that throws.
HandlerFns == {"handler", "failingHandler"}

handleWith(ps, fn) ==
    /\ requestHandler = NoHandler
    /\ HandlerAccepted(ps, TExtracted)
    /\ requestHandler' = [params |-> ps, sealedAt |-> Len(declared), fn |-> fn]
    /\ UNCHANGED <<middlewares, guards, extractors, declared, invocations>>
    /\ UNCHANGED resolverVars

handle(ps) == handleWith(ps, "handler")

----------------------------------------------------------------------------
(* One invocation of the request handler (route-builder.ts:184-207) *)

Pending == [kind |-> "pending", args |-> <<>>, error |-> ""]
Result(args) == [kind |-> "result", args |-> args, error |-> ""]
Rejected(msg) == [kind |-> "error", args |-> <<>>, error |-> msg]

NewInvocation(req, a, b) ==
    [ event |-> [req |-> req, auth |-> a, body |-> b],
      handler |-> requestHandler,
      phase |-> "middlewares",   \* the loop the invocation is in
      idx |-> 0,                 \* entries of that loop's array consumed
      extracted |-> <<>>,        \* const extracted: any[] = []
      ran |-> <<>>,              \* history: the steps run, in run order
      witnessed |-> "nothing",   \* history: what other invocations did meanwhile
      calledAt |-> 0,            \* history: builder calls made when the handler ran
      startedAt |-> Len(declared), \* history: builder calls made when it was called
      open |-> {},               \* history: steps started and not yet completed
      outcome |-> Pending ]

Ran(inv, kind, id) == Append(inv.ran, [kind |-> kind, id |-> id])

\* The call of a step function starts the step.
Started(inv, id) == inv.open \cup {id}

\* Mutant: the step is called without await, the loop goes on while it runs.
NotAwaited(inv) == inv.open

\* await: the invocation goes on only when the step it called has completed.
Awaited(inv) == {}

Finish(inv, ran, outcome) ==
    [inv EXCEPT !.phase = "done", !.ran = ran, !.outcome = outcome]

\* handler(...extracted): what the handler function returns or throws
Apply(fn, args) ==
    IF fn = "failingHandler" THEN Rejected("Handler failed") ELSE Result(args)

\* Mutant: an error of the handler is caught, the invocation ends with an
\* empty result.
CallHandlerCatching(inv) ==
    LET out == Apply(inv.handler.fn, inv.extracted)
    IN  [Finish(inv, Ran(inv, "handler", 0),
                IF out.kind = "error" THEN Result(<<>>) ELSE out)
            EXCEPT !.calledAt = Len(declared)]

\* return await handler(...extracted)
CallHandler(inv) ==
    [Finish(inv, Ran(inv, "handler", 0), Apply(inv.handler.fn, inv.extracted))
        EXCEPT !.calledAt = Len(declared)]

\* Mutant: an error of the middleware is caught and the loop goes on.
StepMiddlewareCatching(inv, i) ==
    LET step == middlewares[i]
    IN  [inv EXCEPT !.phase = "middlewares", !.idx = i,
                    !.open = Started(inv, step.id),
                    !.ran = Ran(inv, "action", step.id)]

\* await middleware(event)
StepMiddleware(inv, i) ==
    LET step == middlewares[i]
        r == RunMiddleware(step, inv.event)
    IN  IF r.threw
        THEN Finish(inv, Ran(inv, "action", step.id), Rejected(r.error))
        ELSE [inv EXCEPT !.phase = "middlewares", !.idx = i,
                         !.open = Started(inv, step.id),
                         !.ran = Ran(inv, "action", step.id)]

\* Mutant: the result of the guard is not looked at.
StepGuardIgnoringResult(inv, i) ==
    LET step == guards[i]
        r == RunGuard(step, inv.event)
    IN  IF r.threw
        THEN Finish(inv, Ran(inv, "guard", step.id), Rejected(r.error))
        ELSE [inv EXCEPT !.phase = "guards", !.idx = i,
                         !.open = Started(inv, step.id),
                         !.ran = Ran(inv, "guard", step.id)]

\* const result = await guard(event); if (!result) throw new Error('Guard failed')
StepGuard(inv, i) ==
    LET step == guards[i]
        r == RunGuard(step, inv.event)
    IN  IF r.threw
        THEN Finish(inv, Ran(inv, "guard", step.id), Rejected(r.error))
        ELSE IF ~r.value
        THEN Finish(inv, Ran(inv, "guard", step.id), Rejected("Guard failed"))
        ELSE [inv EXCEPT !.phase = "guards", !.idx = i,
                         !.open = Started(inv, step.id),
                         !.ran = Ran(inv, "guard", step.id)]

\* Mutant: unshift instead of push.
BufferFirst(inv, v) == <<v>> \o inv.extracted

\* Mutant: one buffer, declared outside the returned closure, that every
\* invocation pushes to (it is the longest buffer there is).
BufferShared(inv, v) ==
    LET bufs == {invocations[j].extracted : j \in DOMAIN invocations}
                    \cup {inv.extracted}
        shared == CHOOSE b \in bufs : \A c \in bufs : Len(c) <= Len(b)
    IN  Append(shared, v)

\* extracted.push(v): the buffer of this invocation
Buffer(inv, v) == Append(inv.extracted, v)

\* Mutant: a failing extractor is caught and its value left out.
StepExtractorCatching(inv, i) ==
    LET step == extractors[i]
        r == RunExtractor(step, inv.event)
    IN  [inv EXCEPT !.phase = "extractors", !.idx = i,
                    !.open = Started(inv, step.id),
                    !.extracted = IF r.threw THEN inv.extracted
                                  ELSE Append(inv.extracted, r.value),
                    !.ran = Ran(inv, "extractor", step.id)]

\* Mutant: only the extractors for which the handler declares a parameter run.
StepExtractorForDeclared(inv, i) ==
    LET step == extractors[i]
        r == RunExtractor(step, inv.event)
    IN  IF i > Len(inv.handler.params)
        THEN [inv EXCEPT !.phase = "extractors", !.idx = i]
        ELSE IF r.threw
        THEN Finish(inv, Ran(inv, "extractor", step.id), Rejected(r.error))
        ELSE [inv EXCEPT !.phase = "extractors", !.idx = i,
                         !.open = Started(inv, step.id),
                         !.extracted = Append(inv.extracted, r.value),
                         !.ran = Ran(inv, "extractor", step.id)]

\* const value = await extractor(event); extracted.push(value)
StepExtractor(inv, i) ==
    LET step == extractors[i]
        r == RunExtractor(step, inv.event)
    IN  IF r.threw
        THEN Finish(inv, Ran(inv, "extractor", step.id), Rejected(r.error))
        ELSE [inv EXCEPT !.phase = "extractors", !.idx = i,
                         !.open = Started(inv, step.id),
                         !.extracted = Buffer(inv, r.value),
                         !.ran = Ran(inv, "extractor", step.id)]

\* Mutant: the extractor loop comes before the guard loop.
RunNextExtractorsFirst(inv) ==
    LET inMw == inv.phase = "middlewares"
        inGd == inv.phase = "guards"
        inEx == inv.phase = "extractors"
        cur == [inv EXCEPT !.open = Awaited(inv)]
    IN  IF inMw /\ inv.idx < Len(middlewares) THEN StepMiddleware(cur, inv.idx + 1)
        ELSE IF inMw /\ 0 < Len(extractors) THEN StepExtractor(cur, 1)
        ELSE IF inEx /\ inv.idx < Len(extractors) THEN StepExtractor(cur, inv.idx + 1)
        ELSE IF (inMw \/ inEx) /\ 0 < Len(guards) THEN StepGuard(cur, 1)
        ELSE IF inGd /\ inv.idx < Len(guards) THEN StepGuard(cur, inv.idx + 1)
        ELSE CallHandler(cur)

\* The three for...of loops, each over the live array of the builder, then the
\* handler: what the invocation does when it is called or resumed. It is
\* resumed by the completion of the step it awaits.
RunNext(inv) ==
    LET inMw == inv.phase = "middlewares"
        inGd == inv.phase = "guards"
        inEx == inv.phase = "extractors"
        cur == [inv EXCEPT !.open = Awaited(inv)]
    IN  IF inMw /\ inv.idx < Len(middlewares) THEN StepMiddleware(cur, inv.idx + 1)
        ELSE IF inMw /\ 0 < Len(guards) THEN StepGuard(cur, 1)
        ELSE IF inGd /\ inv.idx < Len(guards) THEN StepGuard(cur, inv.idx + 1)
        ELSE IF (inMw \/ inGd) /\ 0 < Len(extractors) THEN StepExtractor(cur, 1)
        ELSE IF inEx /\ inv.idx < Len(extractors) THEN StepExtractor(cur, inv.idx + 1)
        ELSE CallHandler(cur)

\* History kept on the invocations in flight: another invocation ran a step,
\* or failed, while they were suspended.
Witness(inv, other) ==
    IF inv.phase = "done" THEN inv
    ELSE IF other.outcome.kind = "error" THEN [inv EXCEPT !.witnessed = "failure"]
    ELSE IF inv.witnessed = "nothing" THEN [inv EXCEPT !.witnessed = "step"]
    ELSE inv

\* Mutant: the outcome of an earlier invocation for an equal request is kept
\* and handed out again without running anything.
InvokeMemoized(prior, a, b) ==
    /\ requestHandler # NoHandler
    /\ LET fresh == NewInvocation(Len(prior) + 1, a, b)
           same == {j \in DOMAIN prior :
                       /\ prior[j].phase = "done"
                       /\ prior[j].event.auth = a
                       /\ prior[j].event.body = b}
           new == IF same = {} THEN RunNext(fresh)
                  ELSE Finish(fresh, <<>>, prior[CHOOSE j \in same : TRUE].outcome)
       IN  invocations' = Append([j \in 1..Len(prior) |-> Witness(prior[j], new)], new)
    /\ UNCHANGED <<middlewares, guards, extractors, declared, requestHandler>>
    /\ UNCHANGED resolverVars

\* A call of the request handler: the async function runs up to its first await.
Invoke(prior, a, b) ==
    /\ requestHandler # NoHandler
    /\ LET new == RunNext(NewInvocation(Len(prior) + 1, a, b))
       IN  invocations' = Append([j \in 1..Len(prior) |-> Witness(prior[j], new)], new)
    /\ UNCHANGED <<middlewares, guards, extractors, declared, requestHandler>>
    /\ UNCHANGED resolverVars

\* Mutant: a failure takes the invocations in flight down with it.
ResumeAbortingOthers(i) ==
    /\ invocations[i].phase # "done"
    /\ LET new == RunNext(invocations[i])
           Abort(inv) == IF new.outcome.kind = "error" /\ inv.phase # "done"
                         THEN Finish(inv, inv.ran, new.outcome)
                         ELSE inv
       IN  invocations' = [j \in 1..Len(invocations) |->
                              IF j = i THEN new
                              ELSE Abort(Witness(invocations[j], new))]
    /\ UNCHANGED <<middlewares, guards, extractors, declared, requestHandler>>
    /\ UNCHANGED resolverVars

\* The event loop resumes invocation i after its await.
Resume(i) ==
    /\ invocations[i].phase # "done"
    /\ LET new == RunNext(invocations[i])
       IN  invocations' = [j \in 1..Len(invocations) |->
                              IF j = i THEN new ELSE Witness(invocations[j], new)]
    /\ UNCHANGED <<middlewares, guards, extractors, declared, requestHandler>>
    /\ UNCHANGED resolverVars

----------------------------------------------------------------------------
(* Module definitions (core.ts:26-50, 76-78, 181-187) *)

\* The module objects of the application; the call is made on AppModule.
Units == {"A", "B", "C"}
AppModule == "A"

\* defineRoute(method, path, handler)
defineRoute(method, path, handler) ==
    [method |-> method, path |-> path, handler |-> handler]

\* Mutant: defineModule calls the functions in imports and stores the modules
\* they return.
defineModuleResolving(definition) ==
    [definition EXCEPT !.imports = [k \in DOMAIN @ |-> [unit |-> @[k].unit, fn |-> 0]]]

\* defineModule(definition)
defineModule(definition) == definition

\* The routes arrays a module may have. C may declare a route of its own or
\* the path and method that A declares.
RouteLists(u) ==
    CASE u = "A" -> {<<defineRoute("GET", "/a", "aHandler")>>}
      [] u = "B" -> {<<defineRoute("GET", "/b", "bList"),
                       defineRoute("POST", "/b", "bCreate")>>}
      [] u = "C" -> {<<defineRoute("GET", "/c", "cHandler")>>,
                     <<defineRoute("GET", "/a", "cHandler")>>}

\* Under SpecLazy every module has one routes array.
OwnRouteLists(u) ==
    CASE u = "A" -> {<<defineRoute("GET", "/a", "aHandler")>>}
      [] u = "B" -> {<<defineRoute("GET", "/b", "bList"),
                       defineRoute("POST", "/b", "bCreate")>>}
      [] u = "C" -> {<<defineRoute("GET", "/c", "cHandler")>>}

ProvidersOf(u) ==
    CASE u = "A" -> <<"P_a">>
      [] u = "B" -> <<"P_b", "P_b2">>
      [] u = "C" -> <<"P_c">>

\* The exports arrays: a module exports some of its providers, and may name a
\* token that is not in its providers array.
ExportsOf(u) ==
    CASE u = "A" -> <<"P_a">>
      [] u = "B" -> <<"P_b">>
      [] u = "C" -> <<"P_c", "X_c">>

UnitNo(u) == CASE u = "A" -> 1 [] u = "B" -> 2 [] u = "C" -> 3

\* An entry of an imports array is an object: a module (fn = 0), which is what
\* the type ModuleDefinition[] admits, or a function () => module, which is
\* how ADR-0003 writes a lazy import. Every function is an object of its own.
ModuleRef(u) == [unit |-> u, fn |-> 0]
LazyRef(owner, k, u) == [unit |-> u, fn |-> 10 * UnitNo(owner) + k]

ImportKinds == {"module", "function"}

\* The imports arrays of at most max entries, no module listed twice.
ImportLists(owner, max, kinds) ==
    LET picks == UNION {[1..n -> Units \X kinds] : n \in 0..max}
        distinct == {s \in picks :
                        \A i, j \in DOMAIN s : i # j => s[i][1] # s[j][1]}
    IN  {[k \in DOMAIN s |-> IF s[k][2] = "function"
                             THEN LazyRef(owner, k, s[k][1])
                             ELSE ModuleRef(s[k][1])] : s \in distinct}

\* The object literals a module may be defined with.
ModuleDefs(owner, imports, routeLists) ==
    {[name |-> owner, imports |-> i, routes |-> r,
      providers |-> ProvidersOf(owner), exports |-> ExportsOf(owner)] :
        i \in imports, r \in routeLists}

\* What traverseModule reads on the object it is given: a function has no
\* imports, routes or providers property.
NoFields == [imports |-> <<>>, routes |-> <<>>, providers |-> <<>>]
Fields(obj) == IF obj.fn = 0 THEN modules[obj.unit] ELSE NoFields

----------------------------------------------------------------------------
(* createH3AppFromModule (core.ts:89-140) *)

Frame(obj) == [module |-> obj, next |-> 1]

\* Mutant: one visited set for all calls of createH3AppFromModule.
LeftoverVisited == visited

\* visited = new Set<ModuleDefinition>(): the default of the parameter,
\* evaluated at the call traverseModule(rootModule)
FreshVisited == {}

\* Mutant: an import that leads back to a module in progress is warned about,
\* with the path of the cycle.
OnRevisitWarning(module, frames) ==
    IF \E k \in DOMAIN frames : frames[k].module = module
    THEN <<[k \in DOMAIN frames |-> frames[k].module.unit] \o <<module.unit>>>>
    ELSE <<>>

\* if (visited.has(module)) { return }: nothing is thrown and nothing is
\* written to the console, whether the module is still being traversed (an
\* import cycle) or was traversed before (a shared import).
OnRevisit(module, frames) == <<>>

\* Mutant: no visited check, every call runs the body.
EnterUnchecked(module, seen, frames, trace) ==
    [visited |-> seen \cup {module},
     stack |-> Append(frames, Frame(module)),
     visits |-> Append(trace, module),
     reported |-> <<>>,
     skipped |-> {}]

\* The call traverseModule(module, seen) up to its import loop: a module that
\* is in seen returns at once, any other is added to seen before its imports
\* are looked at (core.ts:97-100).
Enter(module, seen, frames, trace) ==
    IF module \in seen
    THEN [visited |-> seen, stack |-> frames, visits |-> trace,
          reported |-> OnRevisit(module, frames),
          skipped |-> IF \E k \in DOMAIN frames : frames[k].module = module
                      THEN {<<frames[Len(frames)].module.unit, module.unit>>}
                      ELSE {}]
    ELSE [visited |-> seen \cup {module},
          stack |-> Append(frames, Frame(module)),
          visits |-> Append(trace, module),
          reported |-> <<>>,
          skipped |-> {}]

\* Mutant: routes.unshift(...module.routes)
UnshiftRoutes(rs) == rs \o routes

\* routes.push(...module.routes)
PushRoutes(rs) == routes \o rs

\* Mutant: providers.unshift(...module.providers)
UnshiftProviders(ps) == ps \o providers

\* providers.push(...module.providers)
PushProviders(ps) == providers \o ps

\* const routes = [], const providers = [], traverseModule(rootModule)
createH3AppFromModule(rootModule) ==
    /\ pc = "idle"
    /\ Len(returned) < MaxResolutions
    /\ pc' = "traversing"
    /\ routes' = <<>>
    /\ providers' = <<>>
    /\ LET call == Enter(ModuleRef(rootModule), FreshVisited, <<>>, <<>>)
       IN  /\ visited' = call.visited
           /\ stack' = call.stack
           /\ visits' = call.visits
           /\ reported' = reported \o call.reported
           /\ skipped' = skipped \cup call.skipped
    /\ UNCHANGED <<given, modules, returned>>
    /\ UNCHANGED pipelineVars

\* for (const imported of module.imports) traverseModule(imported, visited)
traverseModule ==
    /\ pc = "traversing"
    /\ stack # <<>>
    /\ LET top == stack[Len(stack)]
           imports == Fields(top.module).imports
       IN  /\ top.next <= Len(imports)
           /\ LET call == Enter(imports[top.next], visited,
                                [stack EXCEPT ![Len(stack)].next = top.next + 1],
                                visits)
              IN  /\ visited' = call.visited
                  /\ stack' = call.stack
                  /\ visits' = call.visits
                  /\ reported' = reported \o call.reported
                  /\ skipped' = skipped \cup call.skipped
    /\ UNCHANGED <<given, modules, pc, routes, providers, returned>>
    /\ UNCHANGED pipelineVars

\* Mutant: the routes are moved out of the module (module.routes.splice(0)).
collectDraining ==
    /\ pc = "traversing"
    /\ stack # <<>>
    /\ LET top == stack[Len(stack)]
           module == Fields(top.module)
       IN  /\ top.next > Len(module.imports)
           /\ routes' = routes \o module.routes
           /\ providers' = providers \o module.providers
           /\ modules' = IF top.module.fn = 0
                         THEN [modules EXCEPT ![top.module.unit].routes = <<>>]
                         ELSE modules
    /\ stack' = SubSeq(stack, 1, Len(stack) - 1)
    /\ UNCHANGED <<given, pc, visited, visits, returned, reported, skipped>>
    /\ UNCHANGED pipelineVars

\* After the import loop: collect routes, collect providers, return.
collect ==
    /\ pc = "traversing"
    /\ stack # <<>>
    /\ LET top == stack[Len(stack)]
           module == Fields(top.module)
       IN  /\ top.next > Len(module.imports)
           /\ routes' = PushRoutes(module.routes)
           /\ providers' = PushProviders(module.providers)
    /\ stack' = SubSeq(stack, 1, Len(stack) - 1)
    /\ UNCHANGED <<given, modules, pc, visited, visits, returned, reported, skipped>>
    /\ UNCHANGED pipelineVars

\* route.method.toLowerCase()
toLowerCase(method) ==
    CASE method = "GET" -> "get"
      [] method = "POST" -> "post"
      [] method = "PUT" -> "put"
      [] method = "DELETE" -> "delete"
      [] method = "PATCH" -> "patch"

\* Mutant: the route is registered under its method as written.
RegisterAsWritten(table) ==
    [k \in DOMAIN table |-> [method |-> table[k].method,
                             path |-> table[k].path,
                             handler |-> table[k].handler]]

\* for (const route of routes) router[method](route.path, route.handler)
Register(table) ==
    [k \in DOMAIN table |-> [method |-> toLowerCase(table[k].method),
                             path |-> table[k].path,
                             handler |-> table[k].handler]]

\* The routes are registered with the router, the router is mounted on the
\* app and { app, routes, providers } is returned.
returnApp ==
    /\ pc = "traversing"
    /\ stack = <<>>
    /\ pc' = "idle"
    /\ returned' = Append(returned, [app |-> Register(routes),
                                     routes |-> routes,
                                     providers |-> providers])
    /\ UNCHANGED <<given, modules, stack, visited, routes, providers, visits, reported,
                   skipped>>
    /\ UNCHANGED pipelineVars

----------------------------------------------------------------------------
(* Specifications *)

\* new RouteBuilder()
NewRouteBuilder ==
    /\ middlewares = <<>>
    /\ guards = <<>>
    /\ extractors = <<>>
    /\ declared = <<>>
    /\ requestHandler = NoHandler
    /\ invocations = <<>>

\* createH3AppFromModule has not been called.
NotResolved ==
    /\ pc = "idle"
    /\ stack = <<>>
    /\ visited = {}
    /\ routes = <<>>
    /\ providers = <<>>
    /\ visits = <<>>
    /\ returned = <<>>
    /\ reported = <<>>
    /\ skipped = {}

Init ==
    /\ NewRouteBuilder
    /\ given = [u \in Units |-> NoFields]
    /\ modules = [u \in Units |-> defineModule(given[u])]
    /\ NotResolved

AllDone == \A i \in 1..Len(invocations) : invocations[i].phase = "done"

CanDeclare(max) == Len(declared) < max

\* Spec: one builder, any builder call at any time (also after handle and
\* between the steps of an invocation); the request handler is called again
\* once its previous invocation has settled.
Next ==
    \/ \E m \in MiddlewareFns : CanDeclare(MaxSteps) /\ use(m)
    \/ \E g \in GuardFns : CanDeclare(MaxSteps) /\ guard(g)
    \/ \E max \in RateLimitOptions : CanDeclare(MaxSteps) /\ rateLimit(max)
    \/ CanDeclare(MaxSteps) /\ requireAuth
    \/ \E role \in RoleNames : CanDeclare(MaxSteps) /\ requireRole(role)
    \/ \E x \in ExtractorFns : CanDeclare(MaxSteps) /\ extract(x)
    \/ CanDeclare(MaxSteps) /\ body
    \/ CanDeclare(MaxSteps) /\ params
    \/ CanDeclare(MaxSteps) /\ query
    \/ CanDeclare(MaxSteps) /\ auth
    \/ \E name \in HeaderNames : CanDeclare(MaxSteps) /\ header(name)
    \/ \E ps \in HandlerParams : handle(ps)
    \/ \E a \in AuthValues, b \in BodyValues : AllDone /\ Invoke(<<>>, a, b)
    \/ \E i \in 1..Len(invocations) : Resume(i)

Spec == Init /\ [][Next]_vars

\* SpecBuild: the builder alone, up to the call of handle.
Building(max) == CanDeclare(max) /\ requestHandler = NoHandler

NextBuild ==
    \/ \E m \in MiddlewareFns : Building(MaxBuildSteps) /\ use(m)
    \/ \E g \in GuardFns : Building(MaxBuildSteps) /\ guard(g)
    \/ \E max \in RateLimitOptions : Building(MaxBuildSteps) /\ rateLimit(max)
    \/ Building(MaxBuildSteps) /\ requireAuth
    \/ \E role \in RoleNames : Building(MaxBuildSteps) /\ requireRole(role)
    \/ \E x \in ExtractorFns : Building(MaxBuildSteps) /\ extract(x)
    \/ Building(MaxBuildSteps) /\ body
    \/ Building(MaxBuildSteps) /\ params
    \/ Building(MaxBuildSteps) /\ query
    \/ Building(MaxBuildSteps) /\ auth
    \/ \E name \in HeaderNames : Building(MaxBuildSteps) /\ header(name)
    \/ \E ps \in HandlerParams : handle(ps)

SpecBuild == Init /\ [][NextBuild]_vars

\* SpecServe: a pipeline is built and sealed, then serves interleaved requests.
\* Its steps are the ones whose outcome depends on the request.
NextServe ==
    \/ Building(MaxServeSteps) /\ use("logger")
    \/ Building(MaxServeSteps) /\ requireAuth
    \/ Building(MaxServeSteps) /\ body
    \/ Building(MaxServeSteps) /\ auth
    \/ handle(<<>>)
    \/ \E a \in ServeAuthValues, b \in BodyValues :
          Len(invocations) < MaxInvocations /\ Invoke(invocations, a, b)
    \/ \E i \in 1..Len(invocations) : Resume(i)

SpecServe == Init /\ [][NextServe]_vars

\* SpecCall: a pipeline of steps that may fail is sealed with a handler that
\* returns or one that throws, and is invoked one request at a time.
NextCall ==
    \/ \E m \in MiddlewareFns : Building(MaxCallSteps) /\ use(m)
    \/ Building(MaxCallSteps) /\ requireAuth
    \/ Building(MaxCallSteps) /\ body
    \/ \E fn \in HandlerFns : handleWith(<<>>, fn)
    \/ \E a \in ServeAuthValues, b \in BodyValues : AllDone /\ Invoke(<<>>, a, b)
    \/ \E i \in 1..Len(invocations) : Resume(i)

SpecCall == Init /\ [][NextCall]_vars

\* SpecLimit: a pipeline whose guards are rateLimit guards, some with a limit
\* lower than the number of requests, is sealed and serves interleaved
\* requests.
NextLimit ==
    \/ \E max \in RateLimitOptions \cup TightLimits :
          Building(MaxLimitSteps) /\ rateLimit(max)
    \/ Building(MaxLimitSteps) /\ use("logger")
    \/ Building(MaxLimitSteps) /\ body
    \/ handle(<<>>)
    \/ \E b \in BodyValues :
          Len(invocations) < MaxInvocations /\ Invoke(invocations, Undefined, b)
    \/ \E i \in 1..Len(invocations) : Resume(i)

SpecLimit == Init /\ [][NextLimit]_vars

\* The module trees of the three modules: imports arrays of at most max
\* entries of the given kinds, routes arrays from the given lists.
Trees(max, kinds, lists) ==
    {("A" :> a) @@ ("B" :> b) @@ ("C" :> c) :
        a \in ModuleDefs("A", ImportLists("A", max, kinds), lists["A"]),
        b \in ModuleDefs("B", ImportLists("B", max, kinds), lists["B"]),
        c \in ModuleDefs("C", ImportLists("C", max, kinds), lists["C"])}

\* SpecResolve: createH3AppFromModule(AppModule), called again once it has
\* returned, on a tree that the type of imports admits: modules import modules.
InitResolve ==
    /\ NewRouteBuilder
    /\ given \in Trees(MaxImports, {"module"}, [u \in Units |-> RouteLists(u)])
    /\ modules = [u \in Units |-> defineModule(given[u])]
    /\ NotResolved

NextResolve ==
    \/ createH3AppFromModule(AppModule)
    \/ traverseModule
    \/ collect
    \/ returnApp

SpecResolve == InitResolve /\ [][NextResolve]_vars

\* FairResolve: createH3AppFromModule is synchronous code, a call that has
\* started runs on until it returns.
FairResolve == SpecResolve /\ WF_vars(NextResolve)

\* SpecLazy: the same calls on a tree whose imports arrays may hold functions.
InitLazy ==
    /\ NewRouteBuilder
    /\ given \in Trees(MaxLazyImports, ImportKinds, [u \in Units |-> OwnRouteLists(u)])
    /\ modules = [u \in Units |-> defineModule(given[u])]
    /\ NotResolved

SpecLazy == InitLazy /\ [][NextResolve]_vars

----------------------------------------------------------------------------
(* Properties *)

Range(seq) == {seq[k] : k \in DOMAIN seq}

\* The builder calls of one kind among the first n, each with its position in
\* the call order.
RECURSIVE CallsOfKind(_, _)
CallsOfKind(kind, n) ==
    IF n = 0 THEN <<>>
    ELSE LET rest == CallsOfKind(kind, n - 1)
             c == declared[n]
         IN  IF c.kind = kind
             THEN Append(rest, [fn |-> c.fn, arg |-> c.arg, id |-> n])
             ELSE rest

IsStep(entry) == entry.kind # "handler"
HandlerRan(inv) == \E k \in DOMAIN inv.ran : inv.ran[k].kind = "handler"
GuardById(id) == CHOOSE g \in Range(guards) : g.id = id
ExtractorById(id) == CHOOSE x \in Range(extractors) : x.id = id

IsExtractorEntry(entry) == entry.kind = "extractor"
ExtractorEntries(inv) == SelectSeq(inv.ran, IsExtractorEntry)

GuardFails(entry, inv) ==
    /\ entry.kind = "guard"
    /\ LET r == RunGuard(GuardById(entry.id), inv.event)
       IN  r.threw \/ ~r.value

ExtractorFails(entry, inv) ==
    /\ entry.kind = "extractor"
    /\ RunExtractor(ExtractorById(entry.id), inv.event).threw

\* C1: in every invocation the steps run in the order in which they were
\* declared on the builder, whatever their kind: of two steps that both ran,
\* the one declared first ran first.
C1_DeclarationOrder ==
    \A i \in DOMAIN invocations :
        LET r == invocations[i].ran
        IN  \A p, q \in DOMAIN r :
                (p < q /\ IsStep(r[p]) /\ IsStep(r[q])) => r[p].id < r[q].id

\* C2: in an invocation in which a guard fails (returns false or throws), the
\* handler is not invoked and no step declared after that guard has run.
C2_NothingDeclaredAfterFailedGuardRuns ==
    \A i \in DOMAIN invocations :
        LET inv == invocations[i]
        IN  \A k \in DOMAIN inv.ran :
                GuardFails(inv.ran[k], inv) =>
                    /\ ~HandlerRan(inv)
                    /\ \A m \in DOMAIN inv.ran :
                           IsStep(inv.ran[m]) => inv.ran[m].id <= inv.ran[k].id

\* The extractors that were declared when the handler of inv was called.
ExtractorsAt(n) ==
    LET Before(x) == x.id <= n
    IN  SelectSeq(extractors, Before)

\* C3: when all steps succeed the handler is called with exactly n arguments,
\* n the number of extractors declared on the builder at that moment, and the
\* i-th argument is the value the i-th declared extractor produced from the
\* event of this invocation.
C3_HandlerArguments ==
    \A i \in DOMAIN invocations :
        LET inv == invocations[i]
            exs == ExtractorsAt(inv.calledAt)
            entries == ExtractorEntries(inv)
        IN  inv.outcome.kind = "result" =>
                /\ Len(inv.outcome.args) = Len(exs)
                /\ exs = CallsOfKind("extractor", inv.calledAt)
                /\ Len(entries) = Len(exs)
                /\ \A k \in 1..Len(exs) :
                       /\ entries[k].id = exs[k].id
                       /\ inv.outcome.args[k] = RunExtractor(exs[k], inv.event).value

\* C3 witness: a handler was called with two arguments that come from two
\* different extractors, body first.
C3_Witness ==
    \E i \in DOMAIN invocations :
        LET inv == invocations[i]
        IN  /\ inv.outcome.kind = "result"
            /\ Len(inv.outcome.args) = 2
            /\ inv.outcome.args[1].field = "body"
            /\ inv.outcome.args[2].field = "auth"

\* C4: the extractors array, which determines the handler's parameters, is the
\* sequence of extract/body/params/query/auth/header calls in call order; use,
\* guard, rateLimit, requireAuth and requireRole leave it as it is, wherever
\* they are called.
C4_ExtractorSequence ==
    /\ extractors = CallsOfKind("extractor", Len(declared))
    /\ TExtracted = [k \in 1..Len(extractors) |->
                        TypeOf(CallsOfKind("extractor", Len(declared))[k].fn)]
    /\ Len(middlewares) + Len(guards) + Len(extractors) = Len(declared)

\* C4 witness: guards before, between and after two different extractors.
C4_Witness ==
    /\ Len(declared) = MaxBuildSteps
    /\ Len(extractors) = 2
    /\ extractors[1].fn # extractors[2].fn
    /\ Len(guards) = MaxBuildSteps - 2
    /\ \E k \in DOMAIN declared :
           /\ declared[k].kind = "guard"
           /\ \E j \in 1..(k - 1) : declared[j].kind = "extractor"
           /\ \E j \in (k + 1)..Len(declared) : declared[j].kind = "extractor"

\* The static types of the extractors that were declared when handle was called.
SealedTypes ==
    LET cs == CallsOfKind("extractor", requestHandler.sealedAt)
    IN  [k \in 1..Len(cs) |-> TypeOf(cs[k].fn)]

C6_SealedPipelineImmutable ==
    \A i \in DOMAIN invocations :
        LET inv == invocations[i]
        IN  /\ \A k \in DOMAIN inv.ran :
                   IsStep(inv.ran[k]) => inv.ran[k].id <= inv.handler.sealedAt
            /\ inv.outcome.kind = "result" =>
                   Len(inv.outcome.args) =
                       Len(CallsOfKind("extractor", inv.handler.sealedAt))

\* C7: in a pipeline without guards, when an extractor fails the handler is
\* not invoked, no extractor declared after the failing one runs, and the
\* invocation is rejected with the error the extractor threw.
C7_FailingExtractor ==
    \A i \in DOMAIN invocations :
        LET inv == invocations[i]
        IN  guards = <<>> =>
                \A k \in DOMAIN inv.ran :
                    ExtractorFails(inv.ran[k], inv) =>
                        /\ ~HandlerRan(inv)
                        /\ k = Len(inv.ran)
                        /\ \A m \in DOMAIN inv.ran :
                               IsExtractorEntry(inv.ran[m]) =>
                                   inv.ran[m].id <= inv.ran[k].id
                        /\ inv.outcome =
                               Rejected(RunExtractor(ExtractorById(inv.ran[k].id),
                                                     inv.event).error)

\* C7 witness: body, then auth, no guard; body failed on a malformed body and
\* the invocation is over.
C7_Witness ==
    /\ guards = <<>>
    /\ Len(extractors) = 2
    /\ extractors[1].fn = "body"
    /\ extractors[2].fn = "auth"
    /\ \E i \in DOMAIN invocations :
           /\ invocations[i].handler.sealedAt = 2
           /\ invocations[i].phase = "done"
           /\ invocations[i].outcome = Rejected("Malformed body")

\* C8: a guard that throws rejects the invocation with its own error, a guard
\* that returns false rejects it with the guard-failed error; either way the
\* invocation ends in an error and the handler is not invoked.
C8_GuardRejection ==
    \A i \in DOMAIN invocations :
        LET inv == invocations[i]
        IN  \A k \in DOMAIN inv.ran :
                GuardFails(inv.ran[k], inv) =>
                    LET r == RunGuard(GuardById(inv.ran[k].id), inv.event)
                    IN  /\ inv.phase = "done"
                        /\ ~HandlerRan(inv)
                        /\ inv.outcome =
                               Rejected(IF r.threw THEN r.error ELSE "Guard failed")

\* C8 witness: requireRole rejected an authenticated user without the role,
\* after requireAuth had let the user pass.
C8_Witness ==
    \E i \in DOMAIN invocations :
        LET inv == invocations[i]
        IN  /\ inv.event.auth = "alice"
            /\ Len(inv.ran) = 2
            /\ inv.outcome = Rejected(ForbiddenMessage("admin"))

\* C9: interleaved invocations each have a buffer of their own: the handler
\* of an invocation gets exactly the values the extractors produced in that
\* invocation, in extractor order, and no value read from another request.
C9_OwnBuffer ==
    \A i \in DOMAIN invocations :
        LET inv == invocations[i]
            entries == ExtractorEntries(inv)
        IN  inv.outcome.kind = "result" =>
                /\ Len(inv.outcome.args) = Len(entries)
                /\ \A k \in 1..Len(entries) :
                       /\ inv.outcome.args[k] =
                              RunExtractor(ExtractorById(entries[k].id), inv.event).value
                       /\ inv.outcome.args[k].req = inv.event.req

\* C9 witness: two invocations ran interleaved and each handler got the two
\* values of its own request.
C9_Witness ==
    /\ Len(invocations) >= 2
    /\ \A i \in {1, 2} :
           /\ invocations[i].witnessed # "nothing"
           /\ invocations[i].outcome.kind = "result"
           /\ Len(invocations[i].outcome.args) = 2
           /\ invocations[i].outcome.args[1].req = i

\* The sealed pipeline run on one event with nothing else going on
\* (route-builder.ts:184-207): the steps it runs and how it ends.
Entries(kind, arr, n) == [k \in 1..n |-> [kind |-> kind, id |-> arr[k].id]]
First(S) == CHOOSE k \in S : \A j \in S : k <= j

AloneRun(event) ==
    LET badMw == {k \in DOMAIN middlewares : RunMiddleware(middlewares[k], event).threw}
        badGd == {k \in DOMAIN guards :
                     LET r == RunGuard(guards[k], event) IN r.threw \/ ~r.value}
        badEx == {k \in DOMAIN extractors : RunExtractor(extractors[k], event).threw}
        allMw == Entries("action", middlewares, Len(middlewares))
        allGd == Entries("guard", guards, Len(guards))
        allEx == Entries("extractor", extractors, Len(extractors))
    IN  IF badMw # {}
        THEN [ran |-> Entries("action", middlewares, First(badMw)),
              outcome |-> Rejected(RunMiddleware(middlewares[First(badMw)], event).error)]
        ELSE IF badGd # {}
        THEN [ran |-> allMw \o Entries("guard", guards, First(badGd)),
              outcome |-> LET r == RunGuard(guards[First(badGd)], event)
                          IN  Rejected(IF r.threw THEN r.error ELSE "Guard failed")]
        ELSE IF badEx # {}
        THEN [ran |-> allMw \o allGd \o Entries("extractor", extractors, First(badEx)),
              outcome |-> Rejected(RunExtractor(extractors[First(badEx)], event).error)]
        ELSE [ran |-> allMw \o allGd \o allEx \o <<[kind |-> "handler", id |-> 0]>>,
              outcome |-> Apply(requestHandler.fn,
                                [k \in 1..Len(extractors) |->
                                    RunExtractor(extractors[k], event).value])]

\* C10: an invocation that was in flight while another invocation failed still
\* runs the steps, and ends with the outcome, that it has when run alone.
C10_FailureIsContained ==
    \A i \in DOMAIN invocations :
        LET inv == invocations[i]
        IN  /\ (inv.witnessed = "failure" /\ inv.phase = "done") =>
                   /\ inv.ran = AloneRun(inv.event).ran
                   /\ inv.outcome = AloneRun(inv.event).outcome
            /\ (inv.witnessed = "failure" /\ inv.phase # "done") =>
                   /\ inv.outcome = Pending
                   /\ inv.ran = SubSeq(AloneRun(inv.event).ran, 1, Len(inv.ran))

\* C10 witness: the first invocation saw the second one fail while it was
\* suspended, then ran its remaining step and its handler.
C10_Witness ==
    /\ Len(invocations) >= 2
    /\ invocations[2].outcome.kind = "error"
    /\ invocations[1].witnessed = "failure"
    /\ invocations[1].outcome.kind = "result"
    /\ Len(invocations[1].ran) = 3

\* C11: within one invocation no two steps overlap: at most one step is started
\* and not yet completed, it is the step that was called last, every step
\* called before it has completed, and when the handler is called (or the
\* invocation has failed) no step is still running.
C11_NoOverlap ==
    \A i \in DOMAIN invocations :
        LET inv == invocations[i]
        IN  /\ Cardinality(inv.open) <= 1
            /\ \A id \in inv.open :
                   inv.ran # <<>> /\ inv.ran[Len(inv.ran)].id = id
            /\ inv.phase = "done" => inv.open = {}

\* C11 witness: the second step of an invocation is running, the first one has
\* completed.
C11_Witness ==
    \E i \in DOMAIN invocations :
        LET inv == invocations[i]
        IN  /\ inv.phase # "done"
            /\ Len(inv.ran) = 2
            /\ inv.open = {inv.ran[2].id}
            /\ inv.ran[1].id \notin inv.open

\* The number of times the step id (0: the handler) ran in the first n
\* invocations, counting the invocations that ended with a result.
RECURSIVE RunsOf(_, _)
RunsOf(id, n) ==
    IF n = 0 THEN 0
    ELSE LET inv == invocations[n]
             here == IF inv.outcome.kind = "result"
                     THEN Cardinality({k \in DOMAIN inv.ran : inv.ran[k].id = id})
                     ELSE 0
         IN  RunsOf(id, n - 1) + here

Successes == {i \in DOMAIN invocations : invocations[i].outcome.kind = "result"}

\* C12: nothing is kept from one invocation to the next: k successful
\* invocations of a sealed request handler have run each declared step, and
\* the handler, exactly k times, and an invocation that failed has run each
\* step up to its first failing step once.
C12_NoMemoization ==
    /\ \A id \in 0..Len(declared) :
           RunsOf(id, Len(invocations)) = Cardinality(Successes)
    /\ \A i \in DOMAIN invocations :
           invocations[i].outcome.kind = "error" =>
               invocations[i].ran = AloneRun(invocations[i].event).ran

\* C12 witness: two invocations for equal requests both ended with a result,
\* and each of the two declared steps ran twice.
C12_Witness ==
    /\ Len(declared) = 2
    /\ Cardinality(Successes) = 2
    /\ invocations[1].event.auth = invocations[2].event.auth
    /\ invocations[1].event.body = invocations[2].event.body
    /\ \A id \in 0..2 : RunsOf(id, Len(invocations)) = 2

----------------------------------------------------------------------------
(* Properties of the module tree *)

\* The modules that u imports as modules, and the ones it refers to through a
\* function.
Imported(u) ==
    {modules[u].imports[k].unit :
        k \in {j \in DOMAIN modules[u].imports : modules[u].imports[j].fn = 0}}
LazilyImported(u) ==
    {modules[u].imports[k].unit :
        k \in {j \in DOMAIN modules[u].imports : modules[u].imports[j].fn # 0}}

RECURSIVE Closure(_)
Closure(S) ==
    LET T == S \cup UNION {Imported(u) : u \in S}
    IN  IF T = S THEN S ELSE Closure(T)

Descendants(u) == Closure(Imported(u))
Reachable == {AppModule} \cup Descendants(AppModule)
Acyclic == \A u \in Reachable : u \notin Descendants(u)

\* First-discovery depth-first order of the modules: a module is listed when
\* all its imports, taken in the order of its imports array, are listed.
RECURSIVE Discover(_, _)
RECURSIVE DiscoverAll(_, _, _)
Discover(u, order) ==
    IF u \in Range(order) THEN order
    ELSE Append(DiscoverAll(modules[u].imports, 1, order), u)
DiscoverAll(imports, k, order) ==
    IF k > Len(imports) THEN order
    ELSE DiscoverAll(imports, k + 1, Discover(imports[k].unit, order))

RECURSIVE RoutesIn(_)
RoutesIn(order) ==
    IF order = <<>> THEN <<>>
    ELSE modules[Head(order)].routes \o RoutesIn(Tail(order))

RECURSIVE ProvidersIn(_)
ProvidersIn(order) ==
    IF order = <<>> THEN <<>>
    ELSE modules[Head(order)].providers \o ProvidersIn(Tail(order))

Positions(table, entry) == {k \in DOMAIN table : table[k] = entry}

\* The routes of u are in the table, next to each other and in the order of
\* u's routes array.
Contiguous(table, u) ==
    LET own == modules[u].routes
    IN  \E at \in 0..Len(table) :
            /\ at + Len(own) <= Len(table)
            /\ \A k \in DOMAIN own : table[at + k] = own[k]

\* Every route of v is in the table before every route of u.
Precede(table, v, u) ==
    \A r \in Range(modules[v].routes), o \in Range(modules[u].routes) :
        \E p \in Positions(table, r) : \A q \in Positions(table, o) : p < q

\* C13: for an acyclic module tree every returned route table is in
\* first-discovery depth-first order: the routes of the modules a module
\* imports precede its own routes, its own routes are contiguous and in the
\* order of its routes array, and the modules follow each other as the
\* depth-first walk of the imports arrays first completes them.
C13_RouteOrder ==
    \A n \in DOMAIN returned :
        Acyclic =>
            LET table == returned[n].routes
            IN  /\ table = RoutesIn(Discover(AppModule, <<>>))
                /\ \A u \in Reachable :
                       /\ Contiguous(table, u)
                       /\ \A v \in Imported(u) : Precede(table, v, u)

\* C13 witness: A imports [B], B imports nothing, and the table returned for
\* A lists the routes of B, in B's order, before the route of A.
C13_Witness ==
    /\ modules["A"].imports = <<ModuleRef("B")>>
    /\ modules["B"].imports = <<>>
    /\ returned # <<>>
    /\ returned[1].routes = <<defineRoute("GET", "/b", "bList"),
                              defineRoute("POST", "/b", "bCreate"),
                              defineRoute("GET", "/a", "aHandler")>>

\* The call traverseModule(rootModule) has returned.
Traversed == pc = "traversing" /\ stack = <<>>

\* C14: when a cycle of module imports can be reached from the root, the
\* resolution fails: a circular import is reported once the traversal is over,
\* and no result is ever returned.
C14_CycleIsFatal ==
    ~Acyclic =>
        /\ returned = <<>>
        /\ Traversed => reported # <<>>

\* p is a path along module imports from a module back to itself.
IsCyclePath(p) ==
    /\ Len(p) >= 2
    /\ p[1] = p[Len(p)]
    /\ \A k \in 1..(Len(p) - 1) : p[k + 1] \in Imported(p[k])

\* C15: the failure names the cycle: one path is reported, it leads along the
\* imports from the first repeated module back to itself, and for A imports
\* [B], B imports [A] and root A it is A, B, A.
C15_CyclePathReported ==
    (~Acyclic /\ Traversed) =>
        /\ Len(reported) = 1
        /\ IsCyclePath(reported[1])
        /\ (modules["A"].imports = <<ModuleRef("B")>>
               /\ modules["B"].imports = <<ModuleRef("A")>>)
              => reported[1] = <<"A", "B", "A">>

\* The modules u refers to in its imports array, as a module or through a
\* function, and the modules reached along such references.
Referenced(u) == Imported(u) \cup LazilyImported(u)

RECURSIVE ClosureOfReferences(_)
ClosureOfReferences(S) ==
    LET T == S \cup UNION {Referenced(u) : u \in S}
    IN  IF T = S THEN S ELSE ClosureOfReferences(T)

ReferencedFrom(u) == ClosureOfReferences(Referenced(u))
ReachableByReference == {AppModule} \cup ReferencedFrom(AppModule)

\* The modules that lie on a cycle of references that can be reached from the
\* root, in a tree whose imports of modules form no cycle.
OnLazyCycle ==
    IF Acyclic THEN {u \in ReachableByReference : u \in ReferencedFrom(u)} ELSE {}

Count(seq, x) == Cardinality(Positions(seq, x))

\* C16: when the only cycles are closed through a lazy import, the traversal
\* ends without a report, it has run the body of traverseModule once for every
\* module on such a cycle, and each provider of these modules is in the
\* registry once.
C16_LazyCycleResolved ==
    Traversed =>
        \A u \in OnLazyCycle :
            /\ reported = <<>>
            /\ Count(visits, ModuleRef(u)) = 1
            /\ \A p \in Range(modules[u].providers) : Count(providers, p) = 1

\* C17: a lazy import is resolved: the routes and the providers of every
\* module that the root refers to, also through functions only, are in the
\* route table and the registry that are returned.
C17_LazyImportsResolved ==
    \A n \in DOMAIN returned :
        \A u \in ReachableByReference :
            /\ \A r \in Range(modules[u].routes) : Count(returned[n].routes, r) >= 1
            /\ \A p \in Range(modules[u].providers) :
                   Count(returned[n].providers, p) >= 1

\* C18: resolution is repeatable: for an acyclic module tree all the calls of
\* createH3AppFromModule on the same root return the same route table and the
\* same provider registry, entry by entry; the visited set of a call holds
\* the modules that this call has entered and no others.
C18_Repeatable ==
    Acyclic =>
        /\ \A m, n \in DOMAIN returned :
               /\ returned[m].routes = returned[n].routes
               /\ returned[m].providers = returned[n].providers
        /\ pc = "traversing" => visited = Range(visits)

\* C18 witness: the root of an acyclic tree of three modules was resolved
\* twice, with the same four routes and four providers each time.
C18_Witness ==
    /\ Acyclic
    /\ Len(returned) = 2
    /\ Len(returned[1].routes) = 4
    /\ Len(returned[1].providers) = 4
    /\ returned[2] = returned[1]

\* C19: in every returned result each route and each provider of a module
\* that can be reached from the root is there exactly once, however many
\* import paths lead to the module, and nothing of a module that cannot be
\* reached is there.
C19_ExactlyOnce ==
    \A n \in DOMAIN returned :
        \A u \in Units :
            LET times == IF u \in Reachable THEN 1 ELSE 0
            IN  /\ \A r \in Range(modules[u].routes) :
                       Count(returned[n].routes, r) = times
                /\ \A p \in Range(modules[u].providers) :
                       Count(returned[n].providers, p) = times

\* C19 witness: A imports [B, C] and B imports [C]; C, reached along two
\* paths, is in the result once.
C19_Witness ==
    /\ modules["A"].imports = <<ModuleRef("B"), ModuleRef("C")>>
    /\ modules["B"].imports = <<ModuleRef("C")>>
    /\ returned # <<>>
    /\ Count(returned[1].providers, "P_c") = 1
    /\ Len(returned[1].routes) = 4

\* The entries of the table that have the path and the method of entry k.
SameRoute(table, k) ==
    {j \in DOMAIN table : /\ table[j].path = table[k].path
                          /\ table[j].method = table[k].method}

\* C20: the route table is de-duplicated: no returned route table, and no
\* router, holds two entries with the same path and method.
C20_NoDuplicateRoutes ==
    \A n \in DOMAIN returned :
        /\ \A k \in DOMAIN returned[n].routes :
               SameRoute(returned[n].routes, k) = {k}
        /\ \A k \in DOMAIN returned[n].app :
               SameRoute(returned[n].app, k) = {k}

\* Where a module is in a pass, from the visited set and the calls in
\* progress: not entered yet, entered and not returned, or returned.
UnitState(u, seen, frames) ==
    IF ModuleRef(u) \notin seen THEN "Unvisited"
    ELSE IF \E k \in DOMAIN frames : frames[k].module = ModuleRef(u) THEN "OnStack"
    ELSE "Visited"

\* The import that the innermost call is about to traverse, if there is one.
NextImport ==
    IF pc = "traversing" /\ stack # <<>>
    THEN LET top == stack[Len(stack)]
             imports == Fields(top.module).imports
         IN  IF top.next <= Len(imports) THEN <<imports[top.next]>> ELSE <<>>
    ELSE <<>>

\* C21: during a pass every module goes Unvisited, OnStack, Visited: it leaves
\* OnStack only when all its imports are processed and with its routes and
\* providers appended, it never leaves Visited, entering a module that is
\* OnStack reports a cycle and entering one that is Visited reports nothing.
C21_UnitStateMachine ==
    [][pc = "traversing" =>
         /\ \A u \in Units :
               LET before == UnitState(u, visited, stack)
                   after == UnitState(u, visited', stack')
               IN  /\ before = "Unvisited" => after \in {"Unvisited", "OnStack"}
                   /\ before = "Visited" => after = "Visited"
                   /\ (before = "OnStack" /\ after # "OnStack") =>
                          /\ after = "Visited"
                          /\ NextImport = <<>>
                          /\ routes' = routes \o modules[u].routes
                          /\ providers' = providers \o modules[u].providers
         /\ \A k \in DOMAIN NextImport :
               LET entered == UnitState(NextImport[k].unit, visited, stack)
               IN  /\ entered = "OnStack" => reported' # reported
                   /\ entered = "Visited" => reported' = reported
    ]_vars

\* C22: every call of createH3AppFromModule returns, on cyclic trees too, and
\* no pass runs the body of traverseModule twice for the same module.
C22_Terminates ==
    /\ [](\A u \in Units : Count(visits, ModuleRef(u)) <= 1)
    /\ (pc = "traversing") ~> (pc = "idle")

\* C22 witness: a call on a tree in which A and B import each other has
\* returned.
C22_Witness ==
    /\ ModuleRef("B") \in Range(modules["A"].imports)
    /\ ModuleRef("A") \in Range(modules["B"].imports)
    /\ pc = "idle"
    /\ returned # <<>>

\* C23: cycle detection as ADR-0003 documents it: when traverseModule is
\* called on a module that is on the current traversal stack, the cycle (the
\* names of the modules on the stack, in stack order, then the repeated
\* module) is reported, the import is skipped and the traversal goes on with
\* the next import.
C23_CycleWarnedAndSkipped ==
    [][\A k \in DOMAIN NextImport :
           UnitState(NextImport[k].unit, visited, stack) = "OnStack" =>
               /\ reported' = Append(reported,
                                     [j \in DOMAIN stack |-> stack[j].module.unit]
                                         \o <<NextImport[k].unit>>)
               /\ stack' = [stack EXCEPT ![Len(stack)].next = @ + 1]
               /\ visited' = visited
    ]_vars

\* C24: modules are immutable: at every moment, before, during and after the
\* passes, every module has the name, imports, routes, providers and exports
\* of the object literal that was given to defineModule.
C24_UnitsImmutable ==
    \A u \in Units :
        /\ modules[u] = given[u]
        /\ defineModule(given[u]) = given[u]

\* C24 witness: two passes over the three modules have returned.
C24_Witness ==
    /\ Len(returned) = 2
    /\ Len(returned[2].routes) = 4
    /\ modules["A"].imports # <<>>

\* C25: a function in an imports array is not called by defineModule: the
\* module holds the function itself, as it was given, before and after every
\* pass, and nothing has been traversed before the first pass.
C25_LazyNotInvokedAtDeclaration ==
    /\ \A u \in Units :
           \A k \in DOMAIN given[u].imports :
               given[u].imports[k].fn # 0 =>
                   /\ k \in DOMAIN modules[u].imports
                   /\ modules[u].imports[k] = given[u].imports[k]
    /\ (pc = "idle" /\ returned = <<>>) => (visits = <<>> /\ visited = {})

\* C25 witness: the root imports a function; a pass has returned and the
\* imports array still holds the function.
C25_Witness ==
    /\ Len(modules["A"].imports) = 1
    /\ modules["A"].imports[1].fn # 0
    /\ returned # <<>>

\* C26: a handler may declare fewer parameters than there are extractors:
\* whatever it declares, an invocation that ends with a result has run every
\* extractor declared by then and has called the handler with all the values;
\* a handler sealed on a builder without extractors declares no parameter.
C26_HandlerMayIgnoreParameters ==
    /\ (requestHandler # NoHandler /\ SealedTypes = <<>>) =>
           requestHandler.params = <<>>
    /\ \A i \in DOMAIN invocations :
           LET inv == invocations[i]
               exs == ExtractorsAt(inv.calledAt)
           IN  inv.outcome.kind = "result" =>
                   /\ HandlerRan(inv)
                   /\ [k \in 1..Len(exs) |-> exs[k].id]
                          = [k \in 1..Len(ExtractorEntries(inv)) |->
                                ExtractorEntries(inv)[k].id]
                   /\ Len(inv.outcome.args) = Len(exs)

\* C26 witness: a handler without parameters, sealed on a builder whose only
\* step is the body extractor, was called, and body had run.
C26_Witness ==
    \E i \in DOMAIN invocations :
        LET inv == invocations[i]
        IN  /\ inv.handler.params = <<>>
            /\ inv.handler.sealedAt = 1
            /\ Len(declared) = 1
            /\ declared[1].fn = "body"
            /\ inv.outcome.kind = "result"
            /\ Len(ExtractorEntries(inv)) = 1

\* C27: the steps of an invocation run grouped by kind: first the actions,
\* then the guards, then the extractors, then the handler, each group in
\* declaration order, wherever the steps were declared in the chain; an
\* invocation that ends with a result has run every step that was declared
\* when it was called.
C27_GroupedByKind ==
    \A i \in DOMAIN invocations :
        LET inv == invocations[i]
            r == inv.ran
            Rank(e) == CASE e.kind = "action" -> 1
                         [] e.kind = "guard" -> 2
                         [] e.kind = "extractor" -> 3
                         [] e.kind = "handler" -> 4
        IN  /\ \A p, q \in DOMAIN r :
                   p < q => /\ Rank(r[p]) <= Rank(r[q])
                            /\ Rank(r[p]) = Rank(r[q]) => r[p].id < r[q].id
            /\ inv.outcome.kind = "result" =>
                   \A id \in 1..inv.startedAt : \E p \in DOMAIN r : r[p].id = id

\* C27 witness: a guard declared after an extractor ran before it.
C27_Witness ==
    \E i \in DOMAIN invocations :
        LET r == invocations[i].ran
        IN  /\ Len(r) = 3
            /\ r[1].kind = "guard" /\ r[1].id = 2
            /\ r[2].kind = "extractor" /\ r[2].id = 1
            /\ r[3].kind = "handler"

\* C28: an invocation in which a guard fails has run no extractor, not even
\* one declared before that guard, and has run every action that was declared
\* when it was called, also the ones declared after that guard.
C28_GuardFailsBetweenActionsAndExtractors ==
    \A i \in DOMAIN invocations :
        LET inv == invocations[i]
            r == inv.ran
        IN  (\E k \in DOMAIN r : GuardFails(r[k], inv)) =>
                /\ \A p \in DOMAIN r : r[p].kind # "extractor"
                /\ \A m \in DOMAIN middlewares :
                       middlewares[m].id <= inv.startedAt =>
                           \E p \in DOMAIN r : /\ r[p].kind = "action"
                                               /\ r[p].id = middlewares[m].id

\* C28 witness: the guard declared first failed after the action declared
\* second had run.
C28_Witness ==
    \E i \in DOMAIN invocations :
        LET inv == invocations[i]
        IN  /\ inv.outcome.kind = "error"
            /\ Len(inv.ran) = 2
            /\ inv.ran[1].kind = "action" /\ inv.ran[1].id = 2
            /\ inv.ran[2].kind = "guard" /\ inv.ran[2].id = 1

\* C29: every builder method works on the one builder it was called on: each
\* call made so far, through whichever chain and also after handle, has put
\* its step into the array of its kind, and an invocation that ends with a
\* result has run every step declared when it was called, the steps declared
\* after its handler was produced included, with one argument per extractor.
C29_SharedStepList ==
    /\ Len(middlewares) + Len(guards) + Len(extractors) = Len(declared)
    /\ \A n \in DOMAIN declared :
           LET arr == CASE declared[n].kind = "action" -> middlewares
                        [] declared[n].kind = "guard" -> guards
                        [] declared[n].kind = "extractor" -> extractors
           IN  \E k \in DOMAIN arr : /\ arr[k].id = n
                                     /\ arr[k].fn = declared[n].fn
    /\ \A i \in DOMAIN invocations :
           LET inv == invocations[i]
               late == {n \in 1..inv.startedAt : n > inv.handler.sealedAt}
           IN  inv.outcome.kind = "result" =>
                   /\ \A n \in late : \E p \in DOMAIN inv.ran : inv.ran[p].id = n
                   /\ Len(inv.outcome.args) >=
                          Cardinality({n \in 1..inv.startedAt :
                                          declared[n].kind = "extractor"})

\* C29 witness: an extractor was appended to the builder after handle had
\* returned the handler, and an invocation of that handler ran it and passed
\* its value on.
C29_Witness ==
    \E i \in DOMAIN invocations :
        LET inv == invocations[i]
        IN  /\ inv.outcome.kind = "result"
            /\ \E p \in DOMAIN inv.ran :
                   /\ inv.ran[p].kind = "extractor"
                   /\ inv.ran[p].id > inv.handler.sealedAt
            /\ Len(inv.outcome.args) > Len(inv.handler.params)

\* C30: the handler is called at most once in an invocation; an invocation
\* that has ended has called it exactly when none of the steps it ran failed,
\* the call is the last thing it did, and it ended with what the handler
\* returned for the extracted values, or with the error the handler threw.
C30_HandlerCalledOnce ==
    \A i \in DOMAIN invocations :
        LET inv == invocations[i]
            r == inv.ran
            calls == {k \in DOMAIN r : r[k].kind = "handler"}
            Fails(e) ==
                \/ GuardFails(e, inv)
                \/ ExtractorFails(e, inv)
                \/ /\ e.kind = "action"
                   /\ \E m \in DOMAIN middlewares :
                          /\ middlewares[m].id = e.id
                          /\ RunMiddleware(middlewares[m], inv.event).threw
        IN  /\ Cardinality(calls) <= 1
            /\ calls # {} => inv.phase = "done"
            /\ inv.phase = "done" =>
                   /\ calls # {} <=> \A k \in DOMAIN r : ~Fails(r[k])
                   /\ calls # {} =>
                          /\ calls = {Len(r)}
                          /\ inv.outcome = Apply(inv.handler.fn, inv.extracted)
                          /\ Len(inv.extracted) = Len(ExtractorEntries(inv))

\* C30 witness: after a step that succeeded the handler was called once and
\* threw, and the invocation ended with that error.
C30_Witness ==
    \E i \in DOMAIN invocations :
        LET inv == invocations[i]
        IN  /\ Len(inv.ran) = 2
            /\ inv.ran[2].kind = "handler"
            /\ inv.outcome = Rejected("Handler failed")

\* C31: an action that throws ends the invocation there: it is the last step
\* the invocation runs (no later action, no guard, no extractor, no handler),
\* and the invocation is rejected with the error the action threw. What an
\* action returns goes nowhere: the buffer of an invocation holds the values
\* of the extractors it ran, in run order, and nothing else.
C31_FailingAction ==
    \A i \in DOMAIN invocations :
        LET inv == invocations[i]
            ActionById(id) == CHOOSE m \in Range(middlewares) : m.id = id
            Gave(e) == /\ IsExtractorEntry(e)
                       /\ ~RunExtractor(ExtractorById(e.id), inv.event).threw
            xs == SelectSeq(inv.ran, Gave)
        IN  /\ \A k \in DOMAIN inv.ran :
                   LET e == inv.ran[k]
                   IN  (e.kind = "action"
                            /\ RunMiddleware(ActionById(e.id), inv.event).threw) =>
                           /\ k = Len(inv.ran)
                           /\ inv.phase = "done"
                           /\ ~HandlerRan(inv)
                           /\ inv.extracted = <<>>
                           /\ inv.outcome =
                                  Rejected(RunMiddleware(ActionById(e.id),
                                                         inv.event).error)
            /\ Len(inv.extracted) = Len(xs)
            /\ \A k \in DOMAIN xs :
                   inv.extracted[k] =
                       RunExtractor(ExtractorById(xs[k].id), inv.event).value
            /\ inv.outcome.kind = "result" => inv.outcome.args = inv.extracted

\* C31 witness: a failing action and a step of a later phase, both declared
\* before the call; the invocation ran the action alone and was rejected with
\* the action's error.
C31_Witness ==
    \E i \in DOMAIN invocations :
        LET inv == invocations[i]
        IN  /\ Len(middlewares) = 1
            /\ middlewares[1].fn = "failingMiddleware"
            /\ Len(guards) + Len(extractors) = 1
            /\ inv.startedAt = 2
            /\ inv.ran = <<[kind |-> "action", id |-> middlewares[1].id]>>
            /\ inv.phase = "done"
            /\ inv.outcome = Rejected("Middleware error")

C33_ProviderRegistry ==
    \A n \in DOMAIN returned :
        LET result == returned[n]
            size == Cardinality(Reachable)
            orders == {o \in [1..size -> Reachable] :
                          \A i, j \in 1..size : i # j => o[i] # o[j]}
            tokens == UNION {Range(modules[u].providers) : u \in Units}
        IN  /\ \E o \in orders :
                   /\ result.routes = RoutesIn(o)
                   /\ result.providers = ProvidersIn(o)
                   /\ Acyclic => o = Discover(AppModule, <<>>)
            /\ \A u \in Units :
                   \A e \in Range(modules[u].exports) \ tokens :
                       Count(result.providers, e) = 0
            /\ DOMAIN result = {"app", "routes", "providers"}
            /\ \A k \in DOMAIN result.routes :
                   DOMAIN result.routes[k] = {"method", "path", "handler"}

\* C33 witness: A imports [C, B]; C exports X_c, which is not among its
\* providers. The registry returned for A has the providers of C, of B and of
\* A, in this order, and not X_c.
C33_Witness ==
    /\ modules["A"].imports = <<ModuleRef("C"), ModuleRef("B")>>
    /\ modules["B"].imports = <<>>
    /\ modules["C"].imports = <<>>
    /\ "X_c" \in Range(modules["C"].exports)
    /\ returned # <<>>
    /\ returned[1].providers = <<"P_c", "P_b", "P_b2", "P_a">>

\* C34: the router registrations of every returned result follow the returned
\* route table entry by entry: there are as many registrations as entries,
\* and the k-th registration has the path and the handler of the k-th entry
\* and its method in lower case.
C34_RegisteredInTableOrder ==
    \A n \in DOMAIN returned :
        LET registered == returned[n].app
            table == returned[n].routes
        IN  /\ Len(registered) = Len(table)
            /\ \A k \in DOMAIN table :
                   /\ registered[k].path = table[k].path
                   /\ registered[k].handler = table[k].handler
                   /\ table[k].method = "GET" => registered[k].method = "get"
                   /\ table[k].method = "POST" => registered[k].method = "post"
                   /\ registered[k].method \in {"get", "post", "put", "delete", "patch"}

\* C34 witness: A imports [B]; the three routes of the table were registered,
\* get /b, post /b, then get /a.
C34_Witness ==
    /\ returned # <<>>
    /\ Len(returned[1].routes) = 3
    /\ returned[1].routes[2].method = "POST"
    /\ returned[1].app = <<[method |-> "get", path |-> "/b", handler |-> "bList"],
                           [method |-> "post", path |-> "/b", handler |-> "bCreate"],
                           [method |-> "get", path |-> "/a", handler |-> "aHandler"]>>

C36_AuthGuards ==
    \A i \in DOMAIN invocations :
        LET inv == invocations[i]
            RejectedAt(k) == /\ k = Len(inv.ran)
                             /\ inv.phase = "done"
                             /\ inv.outcome.kind = "error"
            LacksRole(r) == \/ inv.event.auth = Undefined
                            \/ r \notin RolesOf(inv.event.auth)
        IN  \A k \in DOMAIN inv.ran :
                inv.ran[k].kind = "guard" =>
                    LET g == GuardById(inv.ran[k].id)
                    IN  /\ g.fn = "requireAuth" =>
                               /\ RejectedAt(k) <=> inv.event.auth = Undefined
                               /\ RejectedAt(k) =>
                                      inv.outcome = Rejected("Unauthorized")
                        /\ g.fn = "requireRole" =>
                               /\ RejectedAt(k) <=> LacksRole(g.arg)
                               /\ (RejectedAt(k) /\ g.arg = "admin") =>
                                      inv.outcome =
                                          Rejected("Forbidden: requires admin role")
                               /\ RejectedAt(k) => inv.outcome # Rejected("Unauthorized")

\* C36 witness: requireRole("admin") is the only guard and the request has no
\* auth value: the invocation was rejected with Forbidden.
C36_Witness ==
    /\ Len(guards) = 1
    /\ guards[1].fn = "requireRole"
    /\ \E i \in DOMAIN invocations :
           /\ invocations[i].event.auth = Undefined
           /\ invocations[i].ran = <<[kind |-> "guard", id |-> guards[1].id]>>
           /\ invocations[i].outcome = Rejected("Forbidden: requires admin role")

====
